---- MODULE Spec2Model ----
(***************************************************************************)
(* Authentication and token life cycle of the gym backend:                 *)
(* AuthService (src/src/service/auth.py), the token helpers of             *)
(* src/src/utils/redis.py and get_current_user                             *)
(* (src/src/dependencies/user.py), over the relational store (users,       *)
(* roles) and the Redis cache (OTP keys, token records).                   *)
(*                                                                         *)
(* Spec      every service call is one atomic step (sequential execution). *)
(* SpecConc  two request workers run confirm_phone_verification and        *)
(*           reset_password statement by statement: the cache GET, the     *)
(*           database commit and the cache DELETE are separate steps.      *)
(* SpecValidate  the register route: UserCreate validation, then the call. *)
(* SpecTokens    the token helpers of utils/redis.py called directly.      *)
(* SpecSeed      the lifespan hook and init_roles_and_permissions, from an *)
(*               empty store, with restarts and an interrupted seeding.    *)
(* SpecLogin     two accounts with usernames and e-mail addresses          *)
(*               (UserService.update_username, update_email, verify_email) *)
(*               and authenticate_user.                                    *)
(* SpecRegister  two request workers run register_user statement by        *)
(*               statement.                                                *)
(* SpecPages     the pagination of get_multi and get_multi_by_filter.      *)
(*                                                                         *)
(* The cache connection is up (redis_client is not None).  Except in       *)
(* SpecSeed the role tables have been initialised by the lifespan hook.    *)
(***************************************************************************)
EXTENDS Integers, Sequences, FiniteSets, TLC

\* ------------------------------------------------------------------ bounds
MaxPhones == 1
MaxPasswords == 2
MaxStreams == 2
MaxTicks == 2
MaxJtis == 1
MaxWorkers == 2
TickSeconds == 1800

\* ------------------------------------------------------- program constants
OTP_LENGTH == 6
VERIFICATION_TTL == 600
RESET_TTL == 3600
ACCESS_TOKEN_EXPIRE_MINUTES == 11520

\* None / NULL / "" of a string-valued slot, and of a time-valued slot.
Nil == <<>>
NoTime == -1
NoExpiry == -1

\* Phone numbers accepted by UserCreate: 11 decimal digits starting 0, 9.
PhoneOf(i) == <<0, 9, 0, 0, 0, 0, 0, 0, 0, 0, i % 10>>
Phones == {PhoneOf(i) : i \in 1..MaxPhones}
Passwords == 1..MaxPasswords
UserIds == 1..MaxPhones
Jtis == 1..MaxJtis
Workers == 1..MaxWorkers

\* random.randint(0, 9) drawn repeatedly: a stream of decimal digits.
StreamLen == OTP_LENGTH + 1
RandomStreams == {[i \in 1..StreamLen |-> (k * i) % 10] : k \in 1..MaxStreams}

\* "".join(str(random.randint(0, 9)) for _ in range(6))
create_otp(stream) == [i \in 1..OTP_LENGTH |-> stream[i]]

Otps == {create_otp(s) : s \in RandomStreams}

\* pwd_context.hash / pwd_context.verify (argon2): the hash is not the
\* password, and verify accepts exactly the password that was hashed.
get_password_hash(password) == [scheme |-> "argon2", of |-> password]

verify_password(plain_password, hashed_password) ==
    hashed_password.scheme = "argon2" /\ hashed_password.of = plain_password

\* ------------------------------------------------------------------- state
\* users, roles: tables of the relational store.  redis: the cache.
\* now: the wall clock in seconds.  resp: the reply of the last finished call.
\* pc, loc: control point and locals of each request worker (SpecConc).
\* History of the OTP life cycle, per purpose and phone:
\*   otpUses       calls that consumed the stored code (matched it, committed
\*                 their change and deleted the key) since it was issued;
\*   otpOk         those of them that returned success;
\*   readers       workers that have read the code now stored;
\*   usedCode      the code consumed since the last issuance, if any;
\*   replay        the last call was a confirmation repeating the phone and
\*                 code of an earlier one that consumed the code, with no
\*                 issuance in between.
\* permissions: the permissions table (roles and permissions are sequences of
\* rows, so that two rows of one name can be told from one).  boot: where the
\* application process is in its lifespan; boots: startups begun so far.
\* pagination: the Pagination returned by the last listing call.
VARIABLES users, roles, permissions, boot, boots, pagination, redis, now,
          resp, otpUses, otpOk, readers, usedCode, replay, pc, loc

vars == <<users, roles, permissions, boot, boots, pagination, redis, now,
          resp, otpUses, otpOk, readers, usedCode, replay, pc, loc>>

\* What no request handler of the authentication service writes.
reference == <<roles, permissions, boot, boots, pagination>>

\* ------------------------------------------------------------ Redis store
\* A key maps to [value, expire_at]; expire_at = NoExpiry for a key without
\* TTL.  Keys whose expire_at has passed are gone (Expire, run by Tick).
PvKey(phone) == <<"phone_verification", phone>>
\* Mutant of PrKey: reset codes stored in the verification namespace.
PrKey_shared(phone) == <<"phone_verification", phone>>
PrKey(phone) == <<"password_reset", phone>>
TokenKey(jti) == <<"token", jti>>

\* GET returned None (the `if not value` tests): no stored value is empty.
Missing(r, k) == k \notin DOMAIN r

RedisGet(r, k) == r[k].value

\* SET key value [EX seconds]: without EX the key is left with no TTL.
RedisSet(r, k, v, ex, t) ==
    [kk \in (DOMAIN r) \cup {k} |->
        IF kk = k
        THEN [value |-> v,
              expire_at |-> IF ex = NoExpiry THEN NoExpiry ELSE t + ex]
        ELSE r[kk]]

\* Mutant of RedisDelete: the key is left in place.
RedisDelete_kept(r, k) == r

\* DEL key
\* Mutant of RedisDelete: the whole database is dropped.
RedisDelete_flush(r, k) == [kk \in {} |-> Nil]

RedisDelete(r, k) == [kk \in (DOMAIN r) \ {k} |-> r[kk]]

Expire(r, t) ==
    [kk \in {k \in DOMAIN r : r[k].expire_at = NoExpiry \/ t < r[k].expire_at}
        |-> r[kk]]

EmptyRedis == [kk \in {} |-> Nil]

\* ------------------------------------------------------- relational store
\* A row of users; its id is its position in the table.  None is NoUser.
NoUser ==
    [id |-> 0, phone_number |-> Nil, email |-> Nil, username |-> Nil,
     hashed_password |-> get_password_hash(0), is_active |-> FALSE,
     is_verified |-> FALSE, last_login |-> NoTime, roles |-> {}]

\* BaseCRUDService.get_by(db, <column>=value): first matching row or None.
get_by(us, column, value) ==
    IF \E i \in 1..Len(us) : us[i][column] = value
    THEN us[CHOOSE i \in 1..Len(us) :
                /\ us[i][column] = value
                /\ \A j \in 1..Len(us) : us[j][column] = value => i <= j]
    ELSE NoUser

\* BaseCRUDService.get(db, id) and db.get(User, id)
get(us, id) == IF id \in 1..Len(us) THEN us[id] ELSE NoUser

\* get_initial_permissions(): the 15 Permission rows, by name.
get_initial_permissions ==
    <<"user:read", "user:write", "user:delete",
      "service:read", "service:write", "service:delete",
      "purchase:read", "purchase:write", "purchase:refund",
      "coach:read", "coach:write", "analytics:read",
      "ticket:read", "ticket:write", "ticket:assign">>

\* The elements of a sequence.
Range(seq) == {seq[i] : i \in DOMAIN seq}

\* get_initial_roles(permissions): the 4 Role rows with their permissions;
\* perm_dict is keyed by name, admin takes list(perm_dict.values()).
get_initial_roles(perms) ==
    <<[name |-> "member",
       permissions |-> {"service:read", "purchase:read", "coach:read",
                        "ticket:read", "ticket:write"}],
      [name |-> "coach",
       permissions |-> {"service:read", "coach:read", "coach:write",
                        "ticket:read", "ticket:write"}],
      [name |-> "support",
       permissions |-> {"user:read", "service:read", "purchase:read",
                        "coach:read", "ticket:read", "ticket:write",
                        "ticket:assign"}],
      [name |-> "admin", permissions |-> Range(perms)]>>

\* The roles table once seeded.
InitialRoles == get_initial_roles(get_initial_permissions)

\* select(Role).where(Role.name == name): a row of that name exists.
HasRole(rs, name) == \E i \in DOMAIN rs : rs[i].name = name

\* No startup and no listing call has happened.
NoPagination ==
    [op |-> "none", total |-> 0, limit |-> 0, skip |-> 0, current_page |-> 0,
     total_pages |-> 0, has_previous |-> FALSE, has_next |-> FALSE]

\* ---------------------------------------------------------------- replies
\* The reply of a call: its operation and arguments (the phone or credential,
\* the submitted or returned code, the password of a login, the bearer
\* token), the error class or "ok", the detail text of a refused login, and
\* the access token returned.
Reply(op, status, arg, code, token, issued) ==
    [op |-> op, status |-> status, detail |-> "", arg |-> arg, code |-> code,
     password |-> 0, token |-> token, issued |-> issued]

NoToken == [sub |-> 0, jti |-> 0, exp |-> 0, iat |-> 0, sig |-> "none"]

NoReply == Reply("none", "none", Nil, Nil, NoToken, NoToken)

\* ------------------------------------------------------------------ tokens
SECRET_KEY == "SECRET_KEY"
FORGED_KEY == "FORGED_KEY"

\* jose.jwt.encode: the claims signed with the key.
jwt_encode(sub, jti, exp, iat, key) ==
    [sub |-> sub, jti |-> jti, exp |-> exp, iat |-> iat, sig |-> key]

\* jose.jwt.decode raises JWTError on a bad signature or when exp < now.
jwt_decodes(token, key, t) == token.sig = key /\ ~(token.exp < t)

\* Bearer tokens a request can carry: any claims, signed with the service's
\* key or with another one.
TokenExps == {TickSeconds, ACCESS_TOKEN_EXPIRE_MINUTES * 60}
TokenInputs ==
    {jwt_encode(u, j, e, 0, k) :
        u \in UserIds, j \in Jtis, e \in TokenExps, k \in {SECRET_KEY, FORGED_KEY}}

\* serialize_data / deserialize_data: json.dumps and json.loads of the dict.
serialize_data(data) == [json |-> data]

deserialize_data(data_str) == data_str.json

\* def store_token_in_redis(token_id, admin_id, expires_at, additional_data=None)
StoreParams == {"token_id", "admin_id", "expires_at", "additional_data"}
StoreRequired == {"token_id", "admin_id", "expires_at"}

\* store_token_in_redis(token_id=..., user_id=..., expires_at=...) in
\* create_access_token.
StoreCallKeywords == {"token_id", "user_id", "expires_at"}

\* Python binds a keyword call when every keyword names a parameter and
\* every parameter without default is supplied; otherwise TypeError.
Binds(keywords, params, required) ==
    keywords \subseteq params /\ required \subseteq keywords

\* The body of store_token_in_redis: [ok, redis].
store_token_in_redis(r, token_id, admin_id, expires_at, t) ==
    LET ttl == expires_at - t
        token_data == [admin_id |-> admin_id, is_revoked |-> FALSE,
                       expires_at |-> expires_at]
        r1 == RedisSet(r, TokenKey(token_id), serialize_data(token_data), ttl, t)
        k2 == <<"admin_tokens", admin_id>>
        members == IF Missing(r1, k2) THEN {} ELSE RedisGet(r1, k2)
    IN  IF ttl <= 0
        THEN [ok |-> FALSE, redis |-> r]
        ELSE [ok |-> TRUE,
              redis |-> [kk \in (DOMAIN r1) \cup {k2} |->
                            IF kk = k2
                            THEN [value |-> members \cup {token_id},
                                  expire_at |-> IF Missing(r1, k2) THEN NoExpiry
                                                ELSE r1[k2].expire_at]
                            ELSE r1[kk]]]

\* Mutant of revoke_token_in_redis: a missing record counts as revoked.
revoke_token_in_redis_noop(r, token_id, t) ==
    IF Missing(r, TokenKey(token_id))
    THEN [ok |-> TRUE, redis |-> r]
    ELSE LET token_data == deserialize_data(RedisGet(r, TokenKey(token_id)))
             revoked == [token_data EXCEPT !.is_revoked = TRUE]
         IN  [ok |-> TRUE,
              redis |-> RedisSet(r, TokenKey(token_id), serialize_data(revoked),
                                 NoExpiry, t)]

\* revoke_token_in_redis: [ok, redis].  The record is rewritten by a SET
\* without expiry.
revoke_token_in_redis(r, token_id, t) ==
    IF Missing(r, TokenKey(token_id))
    THEN [ok |-> FALSE, redis |-> r]
    ELSE LET token_data == deserialize_data(RedisGet(r, TokenKey(token_id)))
             revoked == [token_data EXCEPT !.is_revoked = TRUE]
         IN  [ok |-> TRUE,
              redis |-> RedisSet(r, TokenKey(token_id), serialize_data(revoked),
                                 NoExpiry, t)]

\* check_token_in_redis returns the record, or None (FALSE here) when the key
\* is absent or the record is revoked.
check_token_in_redis(r, token_id) ==
    IF Missing(r, TokenKey(token_id))
    THEN FALSE
    ELSE ~deserialize_data(RedisGet(r, TokenKey(token_id))).is_revoked

\* AuthService.create_access_token(subject): [raised, token, redis].
create_access_token(r, subject, token_id, t) ==
    LET expire == t + ACCESS_TOKEN_EXPIRE_MINUTES * 60
        encoded_jwt == jwt_encode(subject, token_id, expire, t, SECRET_KEY)
    IN  IF ~Binds(StoreCallKeywords, StoreParams, StoreRequired)
        THEN [raised |-> "TypeError", token |-> NoToken, redis |-> r]
        ELSE [raised |-> "none", token |-> encoded_jwt,
              redis |-> store_token_in_redis(r, token_id, subject, expire, t).redis]

Purposes == {"phone_verification", "password_reset"}

NoLocals == [phone |-> Nil, code |-> Nil, password |-> 0, user |-> 0]

Init ==
    /\ users = <<>>
    /\ roles = InitialRoles
    /\ permissions = get_initial_permissions
    /\ boot = "up"
    /\ boots = 1
    /\ pagination = NoPagination
    /\ redis = EmptyRedis
    /\ now = 0
    /\ resp = NoReply
    /\ otpUses = [k \in Purposes \X Phones |-> 0]
    /\ otpOk = [k \in Purposes \X Phones |-> 0]
    /\ readers = [k \in Purposes \X Phones |-> {}]
    /\ usedCode = [k \in Purposes \X Phones |-> Nil]
    /\ replay = FALSE
    /\ pc = [w \in Workers |-> "idle"]
    /\ loc = [w \in Workers |-> NoLocals]

\* ------------------------------------------------- service calls (atomic)
Pv(phone) == <<"phone_verification", phone>>
Pr(phone) == <<"password_reset", phone>>

\* A call that raises before changing anything.
Reject(op, status, arg, code, token) ==
    /\ resp' = Reply(op, status, arg, code, token, NoToken)
    /\ UNCHANGED <<users, redis, otpUses, otpOk, readers, usedCode>>

\* A new code stored under key k: its history starts afresh.
Issued(k) ==
    /\ otpUses' = [otpUses EXCEPT ![k] = 0]
    /\ otpOk' = [otpOk EXCEPT ![k] = 0]
    /\ readers' = [readers EXCEPT ![k] = {}]
    /\ usedCode' = [usedCode EXCEPT ![k] = Nil]

\* `except Exception` of register_user: whatever was raised inside the try,
\* the BadRequest of line 155 included, leaves as ServiceUnavailable.
register_except(raised) == "service_unavailable"

\* Mutant of NewUser: the row is created already verified.
NewUser_verified(id, phone, password) ==
    [id |-> id, phone_number |-> phone, email |-> Nil, username |-> Nil,
     hashed_password |-> get_password_hash(password), is_active |-> TRUE,
     is_verified |-> TRUE, last_login |-> NoTime, roles |-> {"member"}]

\* User(phone_number=..., hashed_password=..., is_active=True,
\*      is_verified=False, roles=[member_role])
NewUser(id, phone, password) ==
    [id |-> id, phone_number |-> phone, email |-> Nil, username |-> Nil,
     hashed_password |-> get_password_hash(password), is_active |-> TRUE,
     is_verified |-> FALSE, last_login |-> NoTime, roles |-> {"member"}]

register_user(phone, password, stream) ==
    LET existing_user == get_by(users, "phone_number", phone)
        verification_code == create_otp(stream)
    IN  /\ IF existing_user.id # 0
           THEN Reject("register_user", register_except("BadRequest"),
                       phone, Nil, NoToken)
           ELSE IF ~HasRole(roles, "member")
           THEN Reject("register_user", register_except("ServiceUnavailable"),
                       phone, Nil, NoToken)
           ELSE /\ users' = Append(users, NewUser(Len(users) + 1, phone, password))
                /\ redis' = RedisSet(redis, PvKey(phone), verification_code,
                                     VERIFICATION_TTL, now)
                /\ resp' = Reply("register_user", "ok", phone,
                                 verification_code, NoToken, NoToken)
                /\ Issued(Pv(phone))
        /\ replay' = FALSE
        /\ UNCHANGED <<reference, now, pc, loc>>

request_phone_verification(phone, stream) ==
    LET user == get_by(users, "phone_number", phone)
        verification_code == create_otp(stream)
    IN  /\ IF user.id = 0
           THEN Reject("request_phone_verification", "not_found",
                       phone, Nil, NoToken)
           ELSE IF user.is_verified
           THEN Reject("request_phone_verification", "bad_request",
                       phone, Nil, NoToken)
           ELSE /\ redis' = RedisSet(redis, PvKey(phone), verification_code,
                                     VERIFICATION_TTL, now)
                /\ resp' = Reply("request_phone_verification", "ok", phone,
                                 verification_code, NoToken, NoToken)
                /\ Issued(Pv(phone))
                /\ UNCHANGED users
        /\ replay' = FALSE
        /\ UNCHANGED <<reference, now, pc, loc>>

\* Mutant of confirm_checks: any code is taken while one is stored.
confirm_checks_anycode(user, r, key, code) ==
    IF user.id = 0 THEN "not_found"
    ELSE IF user.is_verified THEN "bad_request"
    ELSE IF Missing(r, key) THEN "not_found"
    ELSE "pass"

\* Mutant of confirm_checks: the is_verified test is missing.
confirm_checks_noverified(user, r, key, code) ==
    IF user.id = 0 THEN "not_found"
    ELSE IF Missing(r, key) THEN "not_found"
    ELSE IF RedisGet(r, key) # code THEN "bad_request"
    ELSE "pass"

\* Mutant of confirm_checks: the stored code is looked up before the
\* is_verified test.
confirm_checks_lookupfirst(user, r, key, code) ==
    IF user.id = 0 THEN "not_found"
    ELSE IF Missing(r, key) THEN "not_found"
    ELSE IF RedisGet(r, key) # code THEN "bad_request"
    ELSE IF user.is_verified THEN "bad_request"
    ELSE "pass"

\* The tests of confirm_phone_verification, lines 115-130, in their order:
\* the error raised, or "pass".
confirm_checks(user, r, key, code) ==
    IF user.id = 0 THEN "not_found"
    ELSE IF user.is_verified THEN "bad_request"
    ELSE IF Missing(r, key) THEN "not_found"
    ELSE IF RedisGet(r, key) # code THEN "bad_request"
    ELSE "pass"

confirm_phone_verification(phone, code, token_id) ==
    LET user == get_by(users, "phone_number", phone)
        key == PvKey(phone)
        check == confirm_checks(user, redis, key, code)
        cat == create_access_token(RedisDelete(redis, key), user.id, token_id, now)
    IN  /\ IF check # "pass"
           THEN Reject("confirm_phone_verification", check, phone, code, NoToken)
           ELSE /\ users' = [users EXCEPT ![user.id].is_verified = TRUE]
                /\ redis' = cat.redis
                /\ resp' = Reply("confirm_phone_verification",
                                 IF cat.raised # "none" THEN "internal_error"
                                 ELSE "ok",
                                 phone, code, NoToken, cat.token)
                /\ otpUses' = [otpUses EXCEPT ![Pv(phone)] = @ + 1]
                /\ otpOk' = [otpOk EXCEPT ![Pv(phone)] =
                                 IF cat.raised # "none" THEN @ ELSE @ + 1]
                /\ usedCode' = [usedCode EXCEPT ![Pv(phone)] = code]
                /\ UNCHANGED readers
        /\ replay' = (usedCode[Pv(phone)] = code)
        /\ UNCHANGED <<reference, now, pc, loc>>

\* get_by(email=credential) or get_by(username=...) or get_by(phone_number=...)
\* Mutant of find_by_credential: the phone number is looked up first.
find_by_credential_phonefirst(us, credential) ==
    IF get_by(us, "phone_number", credential).id # 0
    THEN get_by(us, "phone_number", credential)
    ELSE IF get_by(us, "username", credential).id # 0
    THEN get_by(us, "username", credential)
    ELSE get_by(us, "email", credential)

\* get_by(email=credential) or get_by(username=credential)
\*     or get_by(phone_number=credential)
find_by_credential(us, credential) ==
    IF get_by(us, "email", credential).id # 0
    THEN get_by(us, "email", credential)
    ELSE IF get_by(us, "username", credential).id # 0
    THEN get_by(us, "username", credential)
    ELSE get_by(us, "phone_number", credential)

\* Mutant of authenticate_checks: the is_verified test is missing.
authenticate_checks_noverified(user, password) ==
    IF user.id = 0 THEN "unauthorized"
    ELSE IF ~user.is_active THEN "unauthorized"
    ELSE IF ~verify_password(password, user.hashed_password) THEN "unauthorized"
    ELSE "pass"

\* The tests of authenticate_user, lines 209-218: the error raised, or "pass".
authenticate_checks(user, password) ==
    IF user.id = 0 THEN "unauthorized"
    ELSE IF ~user.is_verified THEN "unauthorized"
    ELSE IF ~user.is_active THEN "unauthorized"
    ELSE IF ~verify_password(password, user.hashed_password) THEN "unauthorized"
    ELSE "pass"

\* Mutant of authenticate_detail: one text for every refusal.
authenticate_detail_generic(user, password) == "Invalid credentials"

\* The detail of the Unauthorized raised by lines 209-218.
authenticate_detail(user, password) ==
    IF user.id = 0 THEN "Invalid credentials"
    ELSE IF ~user.is_verified
    THEN "User is not verified. Please verify your phone number first."
    ELSE IF ~user.is_active THEN "User account is disabled"
    ELSE IF ~verify_password(password, user.hashed_password)
    THEN "Invalid credentials"
    ELSE ""

authenticate_user(credential, password, token_id) ==
    LET user == find_by_credential(users, credential)
        check == authenticate_checks(user, password)
        cat == create_access_token(redis, user.id, token_id, now)
        status == IF check # "pass" THEN check
                  ELSE IF cat.raised # "none" THEN "internal_error"
                  ELSE "ok"
    IN  /\ resp' = [Reply("authenticate_user", status, credential, Nil, NoToken,
                          IF status = "ok" THEN cat.token ELSE NoToken)
                       EXCEPT !.password = password,
                              !.detail = authenticate_detail(user, password)]
        /\ IF status = "ok"
           THEN /\ users' = [users EXCEPT ![user.id].last_login = now]
                /\ redis' = cat.redis
           ELSE UNCHANGED <<users, redis>>
        /\ replay' = FALSE
        /\ UNCHANGED <<reference, now, pc, loc, otpUses, otpOk, readers, usedCode>>

refresh_token(token, token_id) ==
    LET user == get(users, token.sub)
        cat == create_access_token(redis, user.id, token_id, now)
    IN  /\ IF ~jwt_decodes(token, SECRET_KEY, now)
           THEN Reject("refresh_token", "unauthorized", Nil, Nil, token)
           ELSE IF ~check_token_in_redis(redis, token.jti)
           THEN Reject("refresh_token", "unauthorized", Nil, Nil, token)
           ELSE IF user.id = 0
           THEN Reject("refresh_token", "unauthorized", Nil, Nil, token)
           ELSE IF ~user.is_active
           THEN Reject("refresh_token", "unauthorized", Nil, Nil, token)
           ELSE IF cat.raised # "none"
           THEN Reject("refresh_token", "internal_error", Nil, Nil, token)
           ELSE /\ redis' = revoke_token_in_redis(cat.redis, token.jti, now).redis
                /\ resp' = Reply("refresh_token", "ok", Nil, Nil, token, cat.token)
                /\ UNCHANGED <<users, otpUses, otpOk, readers, usedCode>>
        /\ replay' = FALSE
        /\ UNCHANGED <<reference, now, pc, loc>>

logout(token) ==
    LET rev == revoke_token_in_redis(redis, token.jti, now)
    IN  /\ IF ~jwt_decodes(token, SECRET_KEY, now)
           THEN Reject("logout", "unauthorized", Nil, Nil, token)
           ELSE IF ~rev.ok
           THEN Reject("logout", "service_unavailable", Nil, Nil, token)
           ELSE /\ redis' = rev.redis
                /\ resp' = Reply("logout", "ok", Nil, Nil, token, NoToken)
                /\ UNCHANGED <<users, otpUses, otpOk, readers, usedCode>>
        /\ replay' = FALSE
        /\ UNCHANGED <<reference, now, pc, loc>>

\* dependencies/user.py: decode, then load the user; the cache is not read.
get_current_user(token) ==
    /\ IF ~jwt_decodes(token, SECRET_KEY, now)
       THEN Reject("get_current_user", "unauthorized", Nil, Nil, token)
       ELSE IF get(users, token.sub).id = 0
       THEN Reject("get_current_user", "unauthorized", Nil, Nil, token)
       ELSE Reject("get_current_user", "ok", Nil, Nil, token)
    /\ replay' = FALSE
    /\ UNCHANGED <<reference, now, pc, loc>>

\* What request_password_reset returns, lines 284-287 and 300-303: the
\* message alone when no account has the phone, the message and the code
\* otherwise.  Both messages are the same text.
password_reset_response(us, phone, stream) ==
    IF get_by(us, "phone_number", phone).id = 0
    THEN Reply("request_password_reset", "ok", phone, Nil, NoToken, NoToken)
    ELSE Reply("request_password_reset", "ok", phone, create_otp(stream),
               NoToken, NoToken)

request_password_reset(phone, stream) ==
    LET user == get_by(users, "phone_number", phone)
        reset_code == create_otp(stream)
    IN  /\ IF user.id = 0
           THEN /\ resp' = password_reset_response(users, phone, stream)
                /\ UNCHANGED <<users, redis, otpUses, otpOk, readers, usedCode>>
           ELSE /\ redis' = RedisSet(redis, PrKey(phone), reset_code,
                                     RESET_TTL, now)
                /\ resp' = password_reset_response(users, phone, stream)
                /\ Issued(Pr(phone))
                /\ UNCHANGED users
        /\ replay' = FALSE
        /\ UNCHANGED <<reference, now, pc, loc>>

\* Mutant of reset_checks: any code is taken while one is stored.
reset_checks_anycode(user, r, key, code) ==
    IF user.id = 0 THEN "not_found"
    ELSE IF Missing(r, key) THEN "not_found"
    ELSE "pass"

\* The tests of reset_password, lines 309-320: the error raised, or "pass".
reset_checks(user, r, key, code) ==
    IF user.id = 0 THEN "not_found"
    ELSE IF Missing(r, key) THEN "not_found"
    ELSE IF RedisGet(r, key) # code THEN "bad_request"
    ELSE "pass"

reset_password(phone, code, new_password) ==
    LET user == get_by(users, "phone_number", phone)
        key == PrKey(phone)
        check == reset_checks(user, redis, key, code)
    IN  /\ IF check # "pass"
           THEN Reject("reset_password", check, phone, code, NoToken)
           ELSE /\ users' = [users EXCEPT ![user.id].hashed_password =
                                              get_password_hash(new_password)]
                /\ redis' = RedisDelete(redis, key)
                /\ resp' = Reply("reset_password", "ok", phone, code,
                                 NoToken, NoToken)
                /\ otpUses' = [otpUses EXCEPT ![Pr(phone)] = @ + 1]
                /\ otpOk' = [otpOk EXCEPT ![Pr(phone)] = @ + 1]
                /\ usedCode' = [usedCode EXCEPT ![Pr(phone)] = code]
                /\ UNCHANGED readers
        /\ replay' = (usedCode[Pr(phone)] = code)
        /\ UNCHANGED <<reference, now, pc, loc>>

\* UserService.activate_user / deactivate_user: get_user, then
\* update(db_obj=user, obj_in={"is_active": value}).
set_is_active(op, user_id, value) ==
    /\ IF get(users, user_id).id = 0
       THEN Reject(op, "not_found", Nil, Nil, NoToken)
       ELSE /\ users' = [users EXCEPT ![user_id].is_active = value]
            /\ resp' = Reply(op, "ok", Nil, Nil, NoToken, NoToken)
            /\ UNCHANGED <<redis, otpUses, otpOk, readers, usedCode>>
    /\ replay' = FALSE
    /\ UNCHANGED <<reference, now, pc, loc>>

activate_user(user_id) == set_is_active("activate_user", user_id, TRUE)

deactivate_user(user_id) == set_is_active("deactivate_user", user_id, FALSE)

\* Time passes: the last reply is in the past, and Redis drops the keys whose
\* TTL has run out.
Tick ==
    /\ now + TickSeconds <= MaxTicks * TickSeconds
    /\ now' = now + TickSeconds
    /\ redis' = Expire(redis, now')
    /\ resp' = NoReply
    /\ replay' = FALSE
    /\ UNCHANGED <<users, reference, otpUses, otpOk, readers, usedCode, pc, loc>>

Next ==
    \/ \E phone \in Phones, password \in Passwords, stream \in RandomStreams :
          register_user(phone, password, stream)
    \/ \E phone \in Phones, stream \in RandomStreams :
          request_phone_verification(phone, stream)
    \/ \E phone \in Phones, code \in Otps, token_id \in Jtis :
          confirm_phone_verification(phone, code, token_id)
    \/ \E credential \in Phones, password \in Passwords, token_id \in Jtis :
          authenticate_user(credential, password, token_id)
    \/ \E token \in TokenInputs, token_id \in Jtis :
          refresh_token(token, token_id)
    \/ \E token \in TokenInputs : logout(token)
    \/ \E token \in TokenInputs : get_current_user(token)
    \/ \E phone \in Phones, stream \in RandomStreams :
          request_password_reset(phone, stream)
    \/ \E phone \in Phones, code \in Otps, new_password \in Passwords :
          reset_password(phone, code, new_password)
    \/ \E user_id \in UserIds : activate_user(user_id)
    \/ \E user_id \in UserIds : deactivate_user(user_id)
    \/ Tick

Spec == Init /\ [][Next]_vars

\* --------------------------------------- service calls, statement by statement
\* A worker is one request in flight.  Its steps are the store accesses of
\* confirm_phone_verification (cpv_*) and reset_password (rp_*), in program
\* order; what lies between two accesses touches only the worker's locals.
Goto(w, label) == pc' = [pc EXCEPT ![w] = label]

Finish(w, op, status, issued) ==
    /\ resp' = Reply(op, status, loc[w].phone, loc[w].code, NoToken, issued)
    /\ pc' = [pc EXCEPT ![w] = "idle"]
    /\ loc' = [loc EXCEPT ![w] = NoLocals]

\* user = await self.get_by(db, phone_number=phone_number), lines 115-120
cpv_lookup(w, phone, code) ==
    LET user == get_by(users, "phone_number", phone)
    IN  /\ pc[w] = "idle"
        /\ IF user.id = 0
           THEN /\ resp' = Reply("confirm_phone_verification", "not_found",
                                 phone, code, NoToken, NoToken)
                /\ UNCHANGED <<pc, loc>>
           ELSE IF user.is_verified
           THEN /\ resp' = Reply("confirm_phone_verification", "bad_request",
                                 phone, code, NoToken, NoToken)
                /\ UNCHANGED <<pc, loc>>
           ELSE /\ Goto(w, "cpv_get")
                /\ loc' = [loc EXCEPT ![w] = [phone |-> phone, code |-> code,
                                              password |-> 0, user |-> user.id]]
                /\ UNCHANGED resp
        /\ replay' = FALSE
        /\ UNCHANGED <<users, reference, redis, now, otpUses, otpOk, readers,
                       usedCode>>

\* stored_code = redis_client.get(key) and the two tests, lines 124-130
cpv_get(w) ==
    LET key == PvKey(loc[w].phone)
    IN  /\ pc[w] = "cpv_get"
        /\ IF Missing(redis, key)
           THEN /\ Finish(w, "confirm_phone_verification", "not_found", NoToken)
                /\ UNCHANGED readers
           ELSE IF RedisGet(redis, key) # loc[w].code
           THEN /\ Finish(w, "confirm_phone_verification", "bad_request", NoToken)
                /\ UNCHANGED readers
           ELSE /\ Goto(w, "cpv_commit")
                /\ readers' = [readers EXCEPT ![Pv(loc[w].phone)] = @ \cup {w}]
                /\ UNCHANGED <<resp, loc>>
        /\ replay' = FALSE
        /\ UNCHANGED <<users, reference, redis, now, otpUses, otpOk, usedCode>>

\* user.is_verified = True; db.add(user); await db.commit(), lines 132-135
cpv_commit(w) ==
    /\ pc[w] = "cpv_commit"
    /\ users' = [users EXCEPT ![loc[w].user].is_verified = TRUE]
    /\ usedCode' = [usedCode EXCEPT ![Pv(loc[w].phone)] = loc[w].code]
    /\ Goto(w, "cpv_delete")
    /\ replay' = FALSE
    /\ UNCHANGED <<reference, redis, now, resp, otpUses, otpOk, readers, loc>>

\* redis_client.delete(key), line 137
cpv_delete(w) ==
    LET k == Pv(loc[w].phone)
    IN  /\ pc[w] = "cpv_delete"
        /\ redis' = RedisDelete(redis, PvKey(loc[w].phone))
        /\ otpUses' = [otpUses EXCEPT ![k] = IF w \in readers[k] THEN @ + 1 ELSE @]
        /\ Goto(w, "cpv_token")
        /\ replay' = FALSE
        /\ UNCHANGED <<users, reference, now, resp, otpOk, readers, usedCode, loc>>

\* access_token = self.create_access_token(user.id) and the return, 139-146
cpv_token(w, token_id) ==
    LET k == Pv(loc[w].phone)
        cat == create_access_token(redis, loc[w].user, token_id, now)
    IN  /\ pc[w] = "cpv_token"
        /\ redis' = cat.redis
        /\ Finish(w, "confirm_phone_verification",
                  IF cat.raised # "none" THEN "internal_error" ELSE "ok",
                  cat.token)
        /\ otpOk' = [otpOk EXCEPT ![k] =
                        IF cat.raised = "none" /\ w \in readers[k] THEN @ + 1 ELSE @]
        /\ readers' = [readers EXCEPT ![k] = @ \ {w}]
        /\ replay' = FALSE
        /\ UNCHANGED <<users, reference, now, otpUses, usedCode>>

\* user = await self.get_by(db, phone_number=phone_number), lines 309-311
rp_lookup(w, phone, code, new_password) ==
    LET user == get_by(users, "phone_number", phone)
    IN  /\ pc[w] = "idle"
        /\ IF user.id = 0
           THEN /\ resp' = Reply("reset_password", "not_found", phone, code,
                                 NoToken, NoToken)
                /\ UNCHANGED <<pc, loc>>
           ELSE /\ Goto(w, "rp_get")
                /\ loc' = [loc EXCEPT ![w] = [phone |-> phone, code |-> code,
                                              password |-> new_password,
                                              user |-> user.id]]
                /\ UNCHANGED resp
        /\ replay' = FALSE
        /\ UNCHANGED <<users, reference, redis, now, otpUses, otpOk, readers,
                       usedCode>>

\* stored_code = redis_client.get(key) and the two tests, lines 314-320
rp_get(w) ==
    LET key == PrKey(loc[w].phone)
    IN  /\ pc[w] = "rp_get"
        /\ IF Missing(redis, key)
           THEN /\ Finish(w, "reset_password", "not_found", NoToken)
                /\ UNCHANGED readers
           ELSE IF RedisGet(redis, key) # loc[w].code
           THEN /\ Finish(w, "reset_password", "bad_request", NoToken)
                /\ UNCHANGED readers
           ELSE /\ Goto(w, "rp_commit")
                /\ readers' = [readers EXCEPT ![Pr(loc[w].phone)] = @ \cup {w}]
                /\ UNCHANGED <<resp, loc>>
        /\ replay' = FALSE
        /\ UNCHANGED <<users, reference, redis, now, otpUses, otpOk, usedCode>>

\* user.hashed_password = ...; db.add(user); await db.commit(), lines 322-325
rp_commit(w) ==
    /\ pc[w] = "rp_commit"
    /\ users' = [users EXCEPT ![loc[w].user].hashed_password =
                                  get_password_hash(loc[w].password)]
    /\ Goto(w, "rp_delete")
    /\ replay' = FALSE
    /\ UNCHANGED <<reference, redis, now, resp, otpUses, otpOk, readers,
                   usedCode, loc>>

\* redis_client.delete(key) and the return, lines 327-329
rp_delete(w) ==
    LET k == Pr(loc[w].phone)
    IN  /\ pc[w] = "rp_delete"
        /\ redis' = RedisDelete(redis, PrKey(loc[w].phone))
        /\ Finish(w, "reset_password", "ok", NoToken)
        /\ otpUses' = [otpUses EXCEPT ![k] = IF w \in readers[k] THEN @ + 1 ELSE @]
        /\ otpOk' = [otpOk EXCEPT ![k] = IF w \in readers[k] THEN @ + 1 ELSE @]
        /\ readers' = [readers EXCEPT ![k] = @ \ {w}]
        /\ usedCode' = [usedCode EXCEPT ![k] = loc[w].code]
        /\ replay' = FALSE
        /\ UNCHANGED <<users, reference, now>>

NextConc ==
    \/ \E phone \in Phones, password \in Passwords, stream \in RandomStreams :
          register_user(phone, password, stream)
    \/ \E phone \in Phones, stream \in RandomStreams :
          request_phone_verification(phone, stream)
    \/ \E phone \in Phones, stream \in RandomStreams :
          request_password_reset(phone, stream)
    \/ \E w \in Workers, phone \in Phones, code \in Otps : cpv_lookup(w, phone, code)
    \/ \E w \in Workers : cpv_get(w)
    \/ \E w \in Workers : cpv_commit(w)
    \/ \E w \in Workers : cpv_delete(w)
    \/ \E w \in Workers, token_id \in Jtis : cpv_token(w, token_id)
    \/ \E w \in Workers, phone \in Phones, code \in Otps, new_password \in Passwords :
          rp_lookup(w, phone, code, new_password)
    \/ \E w \in Workers : rp_get(w)
    \/ \E w \in Workers : rp_commit(w)
    \/ \E w \in Workers : rp_delete(w)

SpecConc == Init /\ [][NextConc]_vars

\* ------------------------------------------- POST /register with validation
\* Strings are sequences of characters; a character is a number: 0..9 are
\* the ASCII digits '0'..'9', the others are named here.
NEWLINE == 10
LETTER == 11
BANG == 12
DASH == 13
ARABIC_DIGIT == 14

\* \d of a str pattern: the ASCII digits and every other Unicode decimal digit.
IsDigit(ch) == ch \in 0..9 \/ ch = ARABIC_DIGIT

\* [a-zA-Z]
IsLetter(ch) == ch = LETTER

\* [!@#$%^&*(),.?\":{}|<>]
IsSpecial(ch) == ch = BANG

\* re.match(r"^09\d{9}$", v): `$` matches at the end of the string and also
\* just before a newline that ends the string.
validate_phone_number(v) ==
    /\ Len(v) >= 11
    /\ v[1] = 0
    /\ v[2] = 9
    /\ \A i \in 3..11 : IsDigit(v[i])
    /\ \/ Len(v) = 11
       \/ Len(v) = 12 /\ v[12] = NEWLINE

\* The four tests of validate_password; FALSE when it raises ValueError.
validate_password(v) ==
    /\ ~(Len(v) < 8)
    /\ \E i \in 1..Len(v) : IsDigit(v[i])
    /\ \E i \in 1..Len(v) : IsLetter(v[i])
    /\ \E i \in 1..Len(v) : IsSpecial(v[i])

\* UserCreate(phone_number=..., password=...): both field validators pass.
UserCreate(phone_number, password) ==
    validate_phone_number(phone_number) /\ validate_password(password)

\* Request bodies: phones made of a ten character head and a tail, passwords
\* made of a five letter head and a tail.
PhoneHead == <<0, 9, 0, 0, 0, 0, 0, 0, 0, 0>>
PhoneTails ==
    {<<>>, <<1>>, <<1, 1>>, <<LETTER>>, <<ARABIC_DIGIT>>, <<1, NEWLINE>>,
     <<1, NEWLINE, NEWLINE>>, <<1, DASH>>}
PhoneInputs ==
    {PhoneHead \o tail : tail \in PhoneTails}
        \cup {<<0, 8, 0, 0, 0, 0, 0, 0, 0, 0, 1>>, <<9, 0, 0, 0, 0, 0, 0, 0, 0, 0, 1>>}

PasswordHead == <<LETTER, LETTER, LETTER, LETTER, LETTER>>
PasswordTails ==
    {<<1, BANG>>, <<LETTER, 1, BANG>>, <<LETTER, LETTER, 1>>,
     <<LETTER, LETTER, BANG>>, <<LETTER, 1, DASH>>, <<LETTER, ARABIC_DIGIT, BANG>>}
PasswordInputs ==
    {PasswordHead \o tail : tail \in PasswordTails}
        \cup {<<1, 2, 3, 4, 5, 6, 7, BANG>>}

\* The route: FastAPI builds UserCreate from the body and answers 422 when a
\* validator raises; otherwise auth_service.register_user(db, user_data).
register(phone_number, password, stream) ==
    IF ~UserCreate(phone_number, password)
    THEN /\ resp' = Reply("register_user", "unprocessable_entity",
                          phone_number, Nil, NoToken, NoToken)
         /\ replay' = FALSE
         /\ UNCHANGED <<users, reference, redis, now, otpUses, otpOk, readers,
                        usedCode, pc, loc>>
    ELSE register_user(phone_number, password, stream)

InitValidate ==
    /\ users = <<>>
    /\ roles = InitialRoles
    /\ permissions = get_initial_permissions
    /\ boot = "up"
    /\ boots = 1
    /\ pagination = NoPagination
    /\ redis = EmptyRedis
    /\ now = 0
    /\ resp = NoReply
    /\ otpUses = [k \in Purposes \X PhoneInputs |-> 0]
    /\ otpOk = [k \in Purposes \X PhoneInputs |-> 0]
    /\ readers = [k \in Purposes \X PhoneInputs |-> {}]
    /\ usedCode = [k \in Purposes \X PhoneInputs |-> Nil]
    /\ replay = FALSE
    /\ pc = [w \in Workers |-> "idle"]
    /\ loc = [w \in Workers |-> NoLocals]

NextValidate ==
    \E phone_number \in PhoneInputs, password \in PasswordInputs,
       stream \in RandomStreams :
          register(phone_number, password, stream)

SpecValidate == InitValidate /\ [][NextValidate]_vars

\* ------------------------------------------ the token helpers on their own
\* store_token_in_redis, revoke_token_in_redis and check_token_in_redis of
\* utils/redis.py called by their own signatures, with time passing.
MaxTokenIds == 2
TokenIds == 1..MaxTokenIds
TokenLifetimes == {0, TickSeconds, 2 * TickSeconds}

HelperReply(op, token_id, ok) ==
    Reply(op, IF ok THEN "ok" ELSE "none", Nil, Nil,
          jwt_encode(0, token_id, 0, 0, "none"), NoToken)

store_token(token_id, admin_id, lifetime) ==
    LET stored == store_token_in_redis(redis, token_id, admin_id,
                                       now + lifetime, now)
    IN  /\ redis' = stored.redis
        /\ resp' = HelperReply("store_token_in_redis", token_id, stored.ok)
        /\ replay' = FALSE
        /\ UNCHANGED <<users, reference, now, otpUses, otpOk, readers, usedCode,
                       pc, loc>>

revoke_token(token_id) ==
    LET revoked == revoke_token_in_redis(redis, token_id, now)
    IN  /\ redis' = revoked.redis
        /\ resp' = HelperReply("revoke_token_in_redis", token_id, revoked.ok)
        /\ replay' = FALSE
        /\ UNCHANGED <<users, reference, now, otpUses, otpOk, readers, usedCode,
                       pc, loc>>

check_token(token_id) ==
    /\ resp' = HelperReply("check_token_in_redis", token_id,
                           check_token_in_redis(redis, token_id))
    /\ replay' = FALSE
    /\ UNCHANGED <<users, reference, redis, now, otpUses, otpOk, readers,
                   usedCode, pc, loc>>

NextTokens ==
    \/ \E token_id \in TokenIds, admin_id \in UserIds, lifetime \in TokenLifetimes :
          store_token(token_id, admin_id, lifetime)
    \/ \E token_id \in TokenIds : revoke_token(token_id)
    \/ \E token_id \in TokenIds : check_token(token_id)
    \/ Tick

SpecTokens == Init /\ [][NextTokens]_vars

\* ------------------------------------------------ startup (web/main.py)
\* The application process: lifespan runs init_db and then
\* init_roles_and_permissions, statement by statement, since the process can
\* be stopped between its two commits.  boot is "down", "init_roles" (about to
\* run line 11), "permissions" (about to run lines 15-17), "roles" (about
\* to run lines 19-21), "up" (serving) or "failed" (startup raised).
MaxStartups == 4

\* Mutant of Unique: the name columns carry no unique constraint.
Unique_off(names) == TRUE

\* unique=True on Role.name and on Permission.name: a commit that would leave
\* two rows of one name raises IntegrityError.
Unique(names) == \A i, j \in DOMAIN names : names[i] = names[j] => i = j

RoleNames(rs) == [i \in DOMAIN rs |-> rs[i].name]

SeedFrame ==
    UNCHANGED <<users, pagination, redis, now, resp, otpUses, otpOk, readers,
                usedCode, replay, pc, loc>>

\* lifespan up to the call of init_roles_and_permissions.
startup ==
    /\ boot \in {"down", "failed"}
    /\ boots < MaxStartups
    /\ boot' = "init_roles"
    /\ boots' = boots + 1
    /\ UNCHANGED <<roles, permissions>>
    /\ SeedFrame

\* Lines 11-13: return when a role exists.
init_roles_check ==
    /\ boot = "init_roles"
    /\ boot' = IF Len(roles) > 0 THEN "up" ELSE "permissions"
    /\ UNCHANGED <<roles, permissions, boots>>
    /\ SeedFrame

\* Lines 15-17: add the permissions and commit.
init_roles_permissions ==
    /\ boot = "permissions"
    /\ IF Unique(permissions \o get_initial_permissions)
       THEN /\ permissions' = permissions \o get_initial_permissions
            /\ boot' = "roles"
       ELSE /\ permissions' = permissions
            /\ boot' = "failed"
    /\ UNCHANGED <<roles, boots>>
    /\ SeedFrame

\* Lines 19-21: add the roles and commit; lifespan then yields.
init_roles_roles ==
    /\ boot = "roles"
    /\ IF Unique(RoleNames(roles \o get_initial_roles(get_initial_permissions)))
       THEN /\ roles' = roles \o get_initial_roles(get_initial_permissions)
            /\ boot' = "up"
       ELSE /\ roles' = roles
            /\ boot' = "failed"
    /\ UNCHANGED <<permissions, boots>>
    /\ SeedFrame

\* The process is stopped after the permission commit and before the role
\* commit.
interrupt ==
    /\ boot = "roles"
    /\ boot' = "down"
    /\ UNCHANGED <<roles, permissions, boots>>
    /\ SeedFrame

\* The serving process stops: lifespan after the yield.
shutdown ==
    /\ boot = "up"
    /\ boot' = "down"
    /\ UNCHANGED <<roles, permissions, boots>>
    /\ SeedFrame

\* Requests are served between the yield and the shutdown.
serve_register_user(phone, password, stream) ==
    /\ boot = "up"
    /\ register_user(phone, password, stream)

serve_request_phone_verification(phone, stream) ==
    /\ boot = "up"
    /\ request_phone_verification(phone, stream)

InitSeed ==
    /\ users = <<>>
    /\ roles = <<>>
    /\ permissions = <<>>
    /\ boot = "down"
    /\ boots = 0
    /\ pagination = NoPagination
    /\ redis = EmptyRedis
    /\ now = 0
    /\ resp = NoReply
    /\ otpUses = [k \in Purposes \X Phones |-> 0]
    /\ otpOk = [k \in Purposes \X Phones |-> 0]
    /\ readers = [k \in Purposes \X Phones |-> {}]
    /\ usedCode = [k \in Purposes \X Phones |-> Nil]
    /\ replay = FALSE
    /\ pc = [w \in Workers |-> "idle"]
    /\ loc = [w \in Workers |-> NoLocals]

NextSeed ==
    \/ startup
    \/ init_roles_check
    \/ init_roles_permissions
    \/ init_roles_roles
    \/ interrupt
    \/ shutdown
    \/ \E phone \in Phones, password \in Passwords, stream \in RandomStreams :
          serve_register_user(phone, password, stream)
    \/ \E phone \in Phones, stream \in RandomStreams :
          serve_request_phone_verification(phone, stream)

SpecSeed == InitSeed /\ [][NextSeed]_vars

\* --------------------------------------- accounts with e-mail and username
\* Two phones, so that a credential can match one account in one column and
\* another account in a later column.
MaxLoginPhones == 2
LoginPhones == {PhoneOf(i) : i \in 1..MaxLoginPhones}
LoginUserIds == 1..MaxLoginPhones

AT == 15
AnEmail == <<LETTER, AT, LETTER>>
EmailToken == <<1>>
EMAIL_VERIFICATION_TTL == 24 * 60 * 60

\* What a username can be set to: UserUpdate.username is any string.
Usernames == LoginPhones \cup {AnEmail}
Credentials == LoginPhones \cup {AnEmail}

EvKey(token) == <<"email_verification", token>>

\* The password the i-th phone registers with: different accounts, different
\* passwords.
PasswordOf(i) == ((i - 1) % MaxPasswords) + 1

\* One stream of the random source.
OneStream == CHOOSE s \in RandomStreams : TRUE

\* UserService.update_username(db, user_id, new_username)
update_username(user_id, new_username) ==
    LET user == get(users, user_id)
        existing_user == get_by(users, "username", new_username)
    IN  /\ IF user.id = 0
           THEN Reject("update_username", "not_found", new_username, Nil, NoToken)
           ELSE IF new_username = user.username
           THEN /\ resp' = Reply("update_username", "ok", new_username, Nil,
                                 NoToken, NoToken)
                /\ UNCHANGED <<users, redis, otpUses, otpOk, readers, usedCode>>
           ELSE IF existing_user.id # 0 /\ existing_user.id # user_id
           THEN Reject("update_username", "bad_request", new_username, Nil,
                       NoToken)
           ELSE /\ users' = [users EXCEPT ![user_id].username = new_username]
                /\ resp' = Reply("update_username", "ok", new_username, Nil,
                                 NoToken, NoToken)
                /\ UNCHANGED <<redis, otpUses, otpOk, readers, usedCode>>
        /\ replay' = FALSE
        /\ UNCHANGED <<reference, now, pc, loc>>

\* UserService.update_email(db, user_id, new_email): the address is stored
\* under email_verification:<token>, the row is not written.
update_email(user_id, new_email, token) ==
    LET user == get(users, user_id)
        existing_user == get_by(users, "email", new_email)
    IN  /\ IF user.id = 0
           THEN Reject("update_email", "not_found", new_email, Nil, NoToken)
           ELSE IF new_email = user.email
           THEN /\ resp' = Reply("update_email", "ok", new_email, Nil,
                                 NoToken, NoToken)
                /\ UNCHANGED <<users, redis, otpUses, otpOk, readers, usedCode>>
           ELSE IF existing_user.id # 0 /\ existing_user.id # user_id
           THEN Reject("update_email", "bad_request", new_email, Nil, NoToken)
           ELSE /\ redis' = RedisSet(redis, EvKey(token),
                                     [user_id |-> user_id, new_email |-> new_email],
                                     EMAIL_VERIFICATION_TTL, now)
                /\ resp' = Reply("update_email", "ok", new_email, Nil,
                                 NoToken, NoToken)
                /\ UNCHANGED <<users, otpUses, otpOk, readers, usedCode>>
        /\ replay' = FALSE
        /\ UNCHANGED <<reference, now, pc, loc>>

\* UserService.verify_email(db, token): the key is deleted (line 157) before
\* the row is updated (line 159); the update commits unless another row has
\* the address (User.email is unique), and then the call ends in an error.
verify_email(token) ==
    LET redis_key == EvKey(token)
        token_info == RedisGet(redis, redis_key)
        user == get(users, token_info.user_id)
        taken == \E i \in 1..Len(users) :
                    i # user.id /\ users[i].email = token_info.new_email
    IN  /\ IF Missing(redis, redis_key)
           THEN Reject("verify_email", "bad_request", Nil, Nil, NoToken)
           ELSE /\ redis' = RedisDelete(redis, redis_key)
                /\ users' = IF taken THEN users
                            ELSE [users EXCEPT ![user.id].email =
                                                   token_info.new_email]
                /\ resp' = Reply("verify_email",
                                 IF taken THEN "internal_error" ELSE "ok",
                                 token_info.new_email, Nil, NoToken, NoToken)
                /\ UNCHANGED <<otpUses, otpOk, readers, usedCode>>
        /\ replay' = FALSE
        /\ UNCHANGED <<reference, now, pc, loc>>

InitLogin ==
    /\ users = <<>>
    /\ roles = InitialRoles
    /\ permissions = get_initial_permissions
    /\ boot = "up"
    /\ boots = 1
    /\ pagination = NoPagination
    /\ redis = EmptyRedis
    /\ now = 0
    /\ resp = NoReply
    /\ otpUses = [k \in Purposes \X LoginPhones |-> 0]
    /\ otpOk = [k \in Purposes \X LoginPhones |-> 0]
    /\ readers = [k \in Purposes \X LoginPhones |-> {}]
    /\ usedCode = [k \in Purposes \X LoginPhones |-> Nil]
    /\ replay = FALSE
    /\ pc = [w \in Workers |-> "idle"]
    /\ loc = [w \in Workers |-> NoLocals]

NextLogin ==
    \/ \E i \in LoginUserIds :
          register_user(PhoneOf(i), PasswordOf(i), OneStream)
    \/ \E phone \in LoginPhones :
          confirm_phone_verification(phone, create_otp(OneStream), 1)
    \/ \E user_id \in LoginUserIds, new_username \in Usernames :
          update_username(user_id, new_username)
    \/ \E user_id \in LoginUserIds : update_email(user_id, AnEmail, EmailToken)
    \/ verify_email(EmailToken)
    \/ \E user_id \in LoginUserIds : deactivate_user(user_id)
    \/ \E credential \in Credentials, password \in Passwords :
          authenticate_user(credential, password, 1)

SpecLogin == InitLogin /\ [][NextLogin]_vars

\* --------------------------------- register_user, statement by statement
\* The store accesses of register_user in program order: the two SELECTs
\* (lines 153-163), redis_client.set (178-182), db.commit (184), and the
\* return (185-192) or the except clause (194-197).
RegisterFailed(w, raised) ==
    /\ resp' = Reply("register_user", register_except(raised), loc[w].phone,
                     Nil, NoToken, NoToken)
    /\ pc' = [pc EXCEPT ![w] = "idle"]
    /\ loc' = [loc EXCEPT ![w] = NoLocals]

reg_lookup(w, phone, password, stream) ==
    LET existing_user == get_by(users, "phone_number", phone)
    IN  /\ pc[w] = "idle"
        /\ IF existing_user.id # 0 \/ ~HasRole(roles, "member")
           THEN /\ resp' = Reply("register_user",
                                 register_except(IF existing_user.id # 0
                                                 THEN "BadRequest"
                                                 ELSE "ServiceUnavailable"),
                                 phone, Nil, NoToken, NoToken)
                /\ UNCHANGED <<pc, loc>>
           ELSE /\ Goto(w, "reg_set")
                /\ loc' = [loc EXCEPT ![w] =
                              [phone |-> phone, code |-> create_otp(stream),
                               password |-> password, user |-> 0]]
                /\ UNCHANGED resp
        /\ replay' = FALSE
        /\ UNCHANGED <<users, reference, redis, now, otpUses, otpOk, readers,
                       usedCode>>

\* redis_client.set(key, verification_code, ex=600), lines 175-182
reg_set(w) ==
    /\ pc[w] = "reg_set"
    /\ redis' = RedisSet(redis, PvKey(loc[w].phone), loc[w].code,
                         VERIFICATION_TTL, now)
    /\ Issued(Pv(loc[w].phone))
    /\ Goto(w, "reg_commit")
    /\ replay' = FALSE
    /\ UNCHANGED <<users, reference, now, resp, loc>>

\* await db.commit(), line 184.  It raises when a row with the phone number
\* has been committed meanwhile (User.phone_number is unique) and when the
\* database does not accept the commit; the except clause rolls back.
reg_commit(w, accepted) ==
    /\ pc[w] = "reg_commit"
    /\ IF accepted /\ get_by(users, "phone_number", loc[w].phone).id = 0
       THEN /\ users' = Append(users, NewUser(Len(users) + 1, loc[w].phone,
                                              loc[w].password))
            /\ Goto(w, "reg_return")
            /\ UNCHANGED <<resp, loc>>
       ELSE /\ RegisterFailed(w, "SQLAlchemyError")
            /\ UNCHANGED users
    /\ replay' = FALSE
    /\ UNCHANGED <<reference, redis, now, otpUses, otpOk, readers, usedCode>>

\* await db.refresh(user_in_db) and the return, lines 185-192
reg_return(w) ==
    /\ pc[w] = "reg_return"
    /\ Finish(w, "register_user", "ok", NoToken)
    /\ replay' = FALSE
    /\ UNCHANGED <<users, reference, redis, now, otpUses, otpOk, readers,
                   usedCode>>

NextRegister ==
    \/ \E w \in Workers, phone \in Phones, password \in Passwords,
          stream \in RandomStreams : reg_lookup(w, phone, password, stream)
    \/ \E w \in Workers : reg_set(w)
    \/ \E w \in Workers, accepted \in BOOLEAN : reg_commit(w, accepted)
    \/ \E w \in Workers : reg_return(w)

SpecRegister == Init /\ [][NextRegister]_vars

\* ------------------------------------------- listings (service/base.py)
\* get_multi and get_multi_by_filter: total is what the COUNT query returns,
\* skip and limit are the caller's.
MaxTotal == 5
MaxSkip == 5
MaxLimit == 3

Totals == 0..MaxTotal
Skips == 0..MaxSkip
Limits == 0..MaxLimit

\* current_page = skip // limit + 1 if limit > 0 else 1
current_page(skip, limit) == IF limit > 0 THEN (skip \div limit) + 1 ELSE 1

\* Mutant of total_pages: the division rounds down.
total_pages_floor(total, limit) == IF limit > 0 THEN total \div limit ELSE 1

\* total_pages = (total + limit - 1) // limit if limit > 0 else 1
total_pages(total, limit) ==
    IF limit > 0 THEN (total + limit - 1) \div limit ELSE 1

\* Pagination(total=..., ..., has_previous=current_page > 1,
\*            has_next=current_page < total_pages)
Paginate(op, total, skip, limit) ==
    [op |-> op, total |-> total, limit |-> limit, skip |-> skip,
     current_page |-> current_page(skip, limit),
     total_pages |-> total_pages(total, limit),
     has_previous |-> current_page(skip, limit) > 1,
     has_next |-> current_page(skip, limit) < total_pages(total, limit)]

PagesFrame ==
    UNCHANGED <<users, roles, permissions, boot, boots, redis, now, resp,
                otpUses, otpOk, readers, usedCode, replay, pc, loc>>

get_multi(total, skip, limit) ==
    /\ pagination' = Paginate("get_multi", total, skip, limit)
    /\ PagesFrame

get_multi_by_filter(total, skip, limit) ==
    /\ pagination' = Paginate("get_multi_by_filter", total, skip, limit)
    /\ PagesFrame

NextPages ==
    \/ \E total \in Totals, skip \in Skips, limit \in Limits :
          get_multi(total, skip, limit)
    \/ \E total \in Totals, skip \in Skips, limit \in Limits :
          get_multi_by_filter(total, skip, limit)

SpecPages == Init /\ [][NextPages]_vars

\* ================================================================== claims
TokenRecord(j) == deserialize_data(RedisGet(redis, TokenKey(j)))

RecordLive(j) == ~Missing(redis, TokenKey(j)) /\ ~TokenRecord(j).is_revoked

UserOfPhone(phone) == get_by(users, "phone_number", phone)

\* C1: a bearer token is accepted by get_current_user only while the cache
\* holds the record token:<jti> with is_revoked false, and by refresh_token
\* only if the cache holds its record (which that refresh has then revoked).
C1_AcceptedOnlyWithLiveRecord ==
    /\ (resp.op = "get_current_user" /\ resp.status = "ok")
          => RecordLive(resp.token.jti)
    /\ (resp.op = "refresh_token" /\ resp.status = "ok")
          => ~Missing(redis, TokenKey(resp.token.jti))

\* C3: a login on an account with is_verified false, whatever the password,
\* answers unauthorized, returns no token, and the account has no token
\* record and no last_login.
C3_UnverifiedLoginRejected ==
    resp.op = "authenticate_user" =>
        LET u == find_by_credential(users, resp.arg)
        IN  (u.id # 0 /\ ~u.is_verified) =>
                /\ resp.status = "unauthorized"
                /\ resp.issued = NoToken
                /\ u.last_login = NoTime
                /\ \A j \in Jtis :
                      Missing(redis, TokenKey(j)) \/ TokenRecord(j).admin_id # u.id

\* C3 witness: the correct password was presented for an unverified account,
\* and the login was refused.
C3_Witness ==
    /\ resp.op = "authenticate_user"
    /\ resp.status = "unauthorized"
    /\ LET u == find_by_credential(users, resp.arg)
       IN  /\ u.id # 0
           /\ ~u.is_verified
           /\ verify_password(resp.password, u.hashed_password)

\* C4: of the confirmation calls that use one stored OTP code, at most one
\* returns success.
C4_AtMostOneSuccess == \A k \in Purposes \X Phones : otpOk[k] <= 1

\* C5: sequentially, a stored code is consumed at most once, the key is
\* absent once it has been consumed, and a confirmation repeating a consumed
\* code with no new issuance in between does not succeed.
C5_SingleUse ==
    /\ \A k \in Purposes \X Phones : otpUses[k] <= 1
    /\ \A p \in Phones :
          /\ otpUses[Pv(p)] = 1 => Missing(redis, PvKey(p))
          /\ otpUses[Pr(p)] = 1 => Missing(redis, PrKey(p))
    /\ (resp.op \in {"confirm_phone_verification", "reset_password"}
           /\ resp.status = "ok")
          => Missing(redis, <<IF resp.op = "reset_password"
                              THEN "password_reset" ELSE "phone_verification",
                              resp.arg>>)
    /\ replay => (resp.status # "ok" /\ resp.issued = NoToken)

\* C5 witness: a reset_password repeated with the code a successful
\* reset_password had consumed has been refused.
C5_Witness ==
    /\ replay
    /\ resp.op = "reset_password"
    /\ resp.status = "not_found"
    /\ otpOk[Pr(resp.arg)] = 1

C8_RegisterPostcondition ==
    (resp.op = "register_user" /\ resp.status = "ok") =>
        LET rows == {i \in 1..Len(users) : users[i].phone_number = resp.arg}
            key == PvKey(resp.arg)
        IN  /\ Cardinality(rows) = 1
            /\ \A i \in rows : ~users[i].is_verified /\ "member" \in users[i].roles
            /\ ~Missing(redis, key)
            /\ RedisGet(redis, key) = resp.code
            /\ redis[key].expire_at = now + 600
            /\ Len(resp.code) = 6
            /\ \A i \in 1..Len(resp.code) : resp.code[i] \in 0..9

\* C8 witness: a registration has succeeded.
C8_Witness ==
    /\ resp.op = "register_user"
    /\ resp.status = "ok"
    /\ ~Missing(redis, PvKey(resp.arg))

\* C9: register_user for a phone that has an account answers bad-request and
\* changes neither the accounts nor the cache; no phone has two accounts.
C9_DuplicateBadRequest ==
    [][\A p \in Phones, pw \in Passwords, s \in RandomStreams :
          (UserOfPhone(p).id # 0 /\ register_user(p, pw, s))
              => /\ resp'.status = "bad_request"
                 /\ users' = users
                 /\ redis' = redis
                 /\ \A i, j \in 1..Len(users') :
                       users'[i].phone_number = users'[j].phone_number => i = j]_vars

C11_LogoutWithoutRecord ==
    [][\A token \in TokenInputs :
          (/\ jwt_decodes(token, SECRET_KEY, now)
           /\ Missing(redis, TokenKey(token.jti))
           /\ logout(token))
              => (resp'.status = "service_unavailable" /\ redis' = redis)]_vars

\* C11 witness: a logout with a signed, unexpired token and no record has
\* been refused.
C11_Witness ==
    /\ resp.op = "logout"
    /\ resp.status = "service_unavailable"
    /\ jwt_decodes(resp.token, SECRET_KEY, now)
    /\ Missing(redis, TokenKey(resp.token.jti))

\* What the caller sees of a reply: the status and the body.
Visible(r) == [status |-> r.status, code |-> r.code, issued |-> r.issued]

\* The users table without the account of a phone.
Unregistered(us, phone) ==
    SelectSeq(us, LAMBDA row : row.phone_number # phone)

\* C14: request_password_reset answers a phone that has an account as it
\* answers the same phone in the state that differs only in that account
\* being absent.
C14_UniformResetResponse ==
    [][\A phone \in Phones, stream \in RandomStreams :
          request_password_reset(phone, stream)
              => Visible(resp')
                    = Visible(password_reset_response(Unregistered(users, phone),
                                                      phone, stream))]_vars

\* A login refused by one of the checks of authenticate_user.
LoginRefused ==
    resp.op = "authenticate_user" /\ resp.status \notin {"ok", "internal_error"}

\* C15 as claimed: every refused login gets the same unauthorized error with
\* the generic invalid-credentials detail.
C15_GenericLoginFailure ==
    LoginRefused
        => (resp.status = "unauthorized" /\ resp.detail = "Invalid credentials")

\* C15 amended: every refused login is unauthorized; the detail is the
\* generic one when no account matches or only the password is wrong, names
\* the missing verification for an unverified account, and names the disabled
\* account for a verified, inactive one, whatever the password.
C15_LoginFailureDetail ==
    LoginRefused =>
        LET u == find_by_credential(users, resp.arg)
        IN  /\ resp.status = "unauthorized"
            /\ u.id = 0 => resp.detail = "Invalid credentials"
            /\ (u.id # 0 /\ ~u.is_verified)
                  => resp.detail
                        = "User is not verified. Please verify your phone number first."
            /\ (u.id # 0 /\ u.is_verified /\ ~u.is_active)
                  => resp.detail = "User account is disabled"
            /\ (u.id # 0 /\ u.is_verified /\ u.is_active)
                  => resp.detail = "Invalid credentials"

\* C15 witness: a login with the correct password was refused on a verified
\* account that is disabled.
C15_Witness ==
    /\ LoginRefused
    /\ LET u == find_by_credential(users, resp.arg)
       IN  /\ u.id # 0
           /\ u.is_verified
           /\ ~u.is_active
           /\ verify_password(resp.password, u.hashed_password)

\* C16: a confirm_phone_verification that turns is_verified from false to
\* true was given the stored code, deletes the OTP key and returns an access
\* token for that account: no account is verified by a call that ends in an
\* error without a token.
C16_VerifiedOnlyWithToken ==
    [][\A p \in Phones, c \in Otps, t \in Jtis :
          (/\ confirm_phone_verification(p, c, t)
           /\ ~UserOfPhone(p).is_verified
           /\ get_by(users', "phone_number", p).is_verified)
              => /\ ~Missing(redis, PvKey(p))
                 /\ RedisGet(redis, PvKey(p)) = c
                 /\ Missing(redis', PvKey(p))
                 /\ resp'.status = "ok"
                 /\ resp'.issued # NoToken
                 /\ resp'.issued.sub = UserOfPhone(p).id]_vars

\* C17: reset_password replaces the password hash exactly when the phone has
\* an account and the code equals the one stored under password_reset:<phone>;
\* an unknown phone or a missing code answers not-found, another code answers
\* bad-request, and a refused call changes neither the accounts nor the cache.
C17_ResetPassword ==
    [][\A p \in Phones, c \in Otps, pw \in Passwords :
          reset_password(p, c, pw) =>
              LET u == UserOfPhone(p)
                  absent == u.id = 0 \/ Missing(redis, PrKey(p))
                  match == ~absent /\ RedisGet(redis, PrKey(p)) = c
              IN  /\ match
                        => /\ resp'.status = "ok"
                           /\ get(users', u.id).hashed_password
                                 = get_password_hash(pw)
                           /\ \A i \in 1..Len(users) :
                                 i # u.id => users'[i] = users[i]
                  /\ ~match
                        => /\ users' = users
                           /\ redis' = redis
                           /\ resp'.status
                                 = IF absent THEN "not_found" ELSE "bad_request"]_vars

\* C17 witness: a reset_password was given the stored code and succeeded.
C17_Witness ==
    /\ resp.op = "reset_password"
    /\ resp.status = "ok"
    /\ UserOfPhone(resp.arg).id # 0
    /\ Missing(redis, PrKey(resp.arg))

\* C18: an account starts with is_verified false, no step sets a true
\* is_verified back to false, and the only step that sets it to true is a
\* confirm_phone_verification given the code stored for the phone.
C18_VerifiedMonotone ==
    [][/\ Len(users') >= Len(users)
       /\ \A i \in 1..Len(users') :
             /\ i > Len(users) => ~users'[i].is_verified
             /\ i <= Len(users) =>
                   /\ users[i].is_verified => users'[i].is_verified
                   /\ (~users[i].is_verified /\ users'[i].is_verified)
                         => \E c \in Otps, t \in Jtis :
                               /\ confirm_phone_verification(
                                      users[i].phone_number, c, t)
                               /\ ~Missing(redis, PvKey(users[i].phone_number))
                               /\ RedisGet(redis, PvKey(users[i].phone_number)) = c]_vars

\* C18 witness: an account that was verified has since had its password
\* reset and is still verified.
C18_Witness ==
    /\ resp.op = "reset_password"
    /\ resp.status = "ok"
    /\ UserOfPhone(resp.arg).is_verified
    /\ usedCode[Pv(resp.arg)] # Nil

\* The phone rule as the claim words it: exactly 11 decimal digits, the
\* first two being 0 and 9.
ElevenDigitsFrom09(v) ==
    /\ Len(v) = 11
    /\ v[1] = 0
    /\ v[2] = 9
    /\ \A i \in 1..Len(v) : IsDigit(v[i])

\* The password rule as the claim words it: length at least 8 with a digit,
\* a letter and a special character.
StrongPassword(v) ==
    /\ Len(v) >= 8
    /\ \E i \in 1..Len(v) : IsDigit(v[i])
    /\ \E i \in 1..Len(v) : IsLetter(v[i])
    /\ \E i \in 1..Len(v) : IsSpecial(v[i])

\* C19: registration creates an account and writes an OTP key only for a
\* phone of exactly 11 decimal digits starting 09 and a strong password;
\* every other input is rejected with the accounts and the cache untouched,
\* and every input meeting both rules with an unregistered phone is accepted.
C19_ValidatedRegistration ==
    [][\A p \in PhoneInputs, pw \in PasswordInputs, s \in RandomStreams :
          register(p, pw, s) =>
              LET valid == ElevenDigitsFrom09(p) /\ StrongPassword(pw)
              IN  /\ ~valid
                        => /\ resp'.status # "ok"
                           /\ users' = users
                           /\ redis' = redis
                  /\ (valid /\ UserOfPhone(p).id = 0)
                        => /\ resp'.status = "ok"
                           /\ Len(users') = Len(users) + 1
                           /\ ~Missing(redis', PvKey(p))]_vars

\* C20: every record token:<jti> in the cache, active or revoked, belongs to
\* a token whose expires_at has not passed.
C20_RecordGoneByExpiry ==
    \A j \in TokenIds :
        ~Missing(redis, TokenKey(j)) => now < TokenRecord(j).expires_at

\* Redis r2 holds under k exactly what r1 holds under k.
SameAt(r1, r2, k) ==
    /\ Missing(r1, k) <=> Missing(r2, k)
    /\ ~Missing(r1, k) => r1[k] = r2[k]

\* The store r with the entry under k removed, or replaced by each code.
OtherContents(r, k) ==
    {RedisDelete(r, k)} \cup {RedisSet(r, k, c, RESET_TTL, now) : c \in Otps}

\* C21: the two one-time-code flows are isolated per purpose.
\* request_password_reset and reset_password leave every
\* phone_verification:<phone> key and every is_verified flag as they were;
\* register_user, request_phone_verification and confirm_phone_verification
\* leave every password_reset:<phone> key and the password hash of every
\* existing account as they were; and the verdict of a confirmation or of a
\* reset is the same whatever is stored under the key of the other purpose.
C21_PurposeIsolation ==
    [][/\ (\/ \E p \in Phones, s \in RandomStreams : request_password_reset(p, s)
           \/ \E p \in Phones, c \in Otps, pw \in Passwords :
                 reset_password(p, c, pw))
          => /\ \A q \in Phones : SameAt(redis, redis', PvKey(q))
             /\ Len(users') = Len(users)
             /\ \A i \in 1..Len(users) :
                   users'[i].is_verified = users[i].is_verified
       /\ (\/ \E p \in Phones, pw \in Passwords, s \in RandomStreams :
                 register_user(p, pw, s)
           \/ \E p \in Phones, s \in RandomStreams :
                 request_phone_verification(p, s)
           \/ \E p \in Phones, c \in Otps, t \in Jtis :
                 confirm_phone_verification(p, c, t))
          => /\ \A q \in Phones : SameAt(redis, redis', PrKey(q))
             /\ \A i \in 1..Len(users) :
                   users'[i].hashed_password = users[i].hashed_password
       /\ \A p \in Phones, c \in Otps, t \in Jtis :
             confirm_phone_verification(p, c, t)
                => \A r \in OtherContents(redis, PrKey(p)) :
                      (confirm_checks(UserOfPhone(p), r, PvKey(p), c) = "pass")
                         <=> resp'.status \in {"ok", "internal_error"}
       /\ \A p \in Phones, c \in Otps, pw \in Passwords :
             reset_password(p, c, pw)
                => \A r \in OtherContents(redis, PvKey(p)) :
                      (reset_checks(UserOfPhone(p), r, PrKey(p), c) = "pass")
                         <=> resp'.status = "ok"]_vars

\* C21 witness: a reset_password succeeded while a verification code for the
\* same phone was stored, and the code is still there.
C21_Witness ==
    /\ resp.op = "reset_password"
    /\ resp.status = "ok"
    /\ ~Missing(redis, PvKey(resp.arg))
    /\ ~UserOfPhone(resp.arg).is_verified

\* The store holds exactly the seeded rows, each name once.
SeededExactly ==
    /\ permissions = get_initial_permissions
    /\ Unique(permissions)
    /\ Len(permissions) = 15
    /\ RoleNames(roles) = <<"member", "coach", "support", "admin">>
    /\ Len(roles) = 4

\* C22: after any sequence of startups, each run to completion or stopped
\* between the permission commit and the role commit, a startup that
\* completes leaves exactly the 15 seeded permissions and the 4 seeded roles,
\* each name once; and init_roles_and_permissions on a store that holds a
\* role changes nothing.
C22_SeededOnce ==
    /\ [](boot = "up" => SeededExactly)
    /\ [][(init_roles_check /\ Len(roles) > 0)
             => /\ roles' = roles
                /\ permissions' = permissions
                /\ boot' = "up"]_vars

\* C22 witness: a startup after the first has completed on the seeded store.
C22_Witness ==
    /\ boot = "up"
    /\ boots >= 2
    /\ Len(roles) = 4

\* The rows whose column holds the credential.
Matching(column, credential) ==
    {i \in 1..Len(users) : users[i][column] = credential}

\* The account a credential stands for: the one matching by e-mail, else the
\* one matching by username, else the one matching by phone number.
FirstMatch(credential) ==
    IF Matching("email", credential) # {}
    THEN users[CHOOSE i \in Matching("email", credential) : TRUE]
    ELSE IF Matching("username", credential) # {}
    THEN users[CHOOSE i \in Matching("username", credential) : TRUE]
    ELSE IF Matching("phone_number", credential) # {}
    THEN users[CHOOSE i \in Matching("phone_number", credential) : TRUE]
    ELSE NoUser

\* C23: authenticate_user resolves the credential by e-mail, else by
\* username, else by phone number, and the flags and the password hash of
\* that first-matching account alone decide the outcome, also when another
\* account matches the credential in a later column.
C23_FirstMatchDecides ==
    [][\A c \in Credentials, pw \in Passwords :
          authenticate_user(c, pw, 1) =>
              LET first == FirstMatch(c)
              IN  /\ (resp'.status \in {"ok", "internal_error"})
                        <=> /\ first.id # 0
                            /\ first.is_verified
                            /\ first.is_active
                            /\ verify_password(pw, first.hashed_password)
                  /\ resp'.status \in {"ok", "internal_error", "unauthorized"}
                  /\ resp'.detail = authenticate_detail(first, pw)
                  /\ \A i \in 1..Len(users) :
                        i # first.id => users'[i] = users[i]]_vars

\* C23 witness: a login whose credential is the username of one account and
\* the phone number of another, the two accounts calling for different
\* answers, was answered as the first calls for.
C23_Witness ==
    /\ resp.op = "authenticate_user"
    /\ \E i, j \in 1..Len(users) :
          /\ i # j
          /\ users[i].username = resp.arg
          /\ users[j].phone_number = resp.arg
          /\ authenticate_detail(users[i], resp.password)
                # authenticate_detail(users[j], resp.password)
          /\ resp.detail = authenticate_detail(users[i], resp.password)

\* C28: whenever register_user returns success with a verification code,
\* that code is the value stored under phone_verification:<phone> at that
\* moment, also under concurrent register_user calls for one phone; and at
\* most one of these calls creates the account.
C28_ReturnedCodeStored ==
    /\ [][\A w \in Workers :
             reg_return(w)
                => /\ ~Missing(redis, PvKey(loc[w].phone))
                   /\ RedisGet(redis, PvKey(loc[w].phone)) = loc[w].code]_vars
    /\ [](\A p \in Phones : Cardinality(Matching("phone_number", p)) <= 1)

\* No request is in flight.
Quiescent == \A w \in Workers : pc[w] = "idle"

\* C29: in every state reached after an operation completes, a
\* phone_verification:<phone> key exists only if an account with that phone
\* exists; and a register_user call that fails leaves neither an account row
\* nor the OTP key it wrote.
C29_KeyOnlyWithAccount ==
    /\ [](Quiescent
             => \A p \in Phones :
                   ~Missing(redis, PvKey(p)) => UserOfPhone(p).id # 0)
    /\ [][\A w \in Workers :
             (\E accepted \in BOOLEAN : reg_commit(w, accepted))
                /\ resp'.op = "register_user" /\ resp'.status # "ok"
                /\ pc'[w] = "idle"
                => Missing(redis', PvKey(loc[w].phone))]_vars

\* An account that exists and has is_active false.
Inactive(user) == user.id # 0 /\ ~user.is_active

\* The call was refused: it raised a client error, returned no token and left
\* the accounts as they were.
RefusedToIssue ==
    /\ resp'.status \in {"unauthorized", "bad_request", "not_found"}
    /\ resp'.issued = NoToken
    /\ users' = users

Accepts(us, token, t) ==
    jwt_decodes(token, SECRET_KEY, t) /\ get(us, token.sub).id # 0

RowsAfter(p) == \E i \in 1..p.total : i > p.skip + p.limit

\* C30 as stated: for limit > 0, skip >= 0 and total >= 0, has_next is true
\* exactly when skip + limit < total and has_previous exactly when skip > 0.
C30_FlagsMatchWindow ==
    (pagination.op # "none" /\ pagination.limit > 0)
       => /\ pagination.has_next <=> pagination.skip + pagination.limit < pagination.total
          /\ pagination.has_previous <=> pagination.skip > 0

\* C30 amended: the same when skip is a multiple of limit, that is when the
\* window is a whole page; has_next is then also true exactly when rows lie
\* after the window.
C30_FlagsMatchPage ==
    (/\ pagination.op # "none"
     /\ pagination.limit > 0
     /\ pagination.skip % pagination.limit = 0)
       => /\ pagination.has_next <=> pagination.skip + pagination.limit < pagination.total
          /\ pagination.has_next <=> RowsAfter(pagination)
          /\ pagination.has_previous <=> pagination.skip > 0

\* C30 witness: a listing of a page after the first, with rows after it.
C30_Witness ==
    /\ pagination.op = "get_multi_by_filter"
    /\ pagination.limit > 1
    /\ pagination.skip > 0
    /\ pagination.skip % pagination.limit = 0
    /\ pagination.has_next
    /\ pagination.has_previous
    /\ pagination.total % pagination.limit # 0

====
